---- MODULE Spec2Model ----
(***************************************************************************)
(* Model of the xtea-cipher crate: the Bytes cursor of src/bytes.rs and    *)
(* the Xtea block cipher of src/lib.rs.                                    *)
(*                                                                         *)
(* A u32 is a pair <<hi, lo>> of 16-bit halves (TLC's integers are 32-bit  *)
(* signed, a u32 does not fit); every operation on it is computed modulo   *)
(* 2^32 on the halves.  A byte is a number in 0..255, a Vec<u8> a          *)
(* sequence of bytes, and a usize position p is the number of bytes before *)
(* it (the Rust index i is the TLA+ index i + 1).                          *)
(***************************************************************************)
EXTENDS Integers, Sequences, FiniteSets, TLC

VARIABLES
    \* ---- one Bytes object (src/bytes.rs) ----
    buffer,      \* Bytes.buffer : Vec<u8>
    read_pos,    \* Bytes.read_pos
    write_pos,   \* Bytes.write_pos
    op,          \* the last call made on the object: [name, size]
    res,         \* its outcome: "new", "ok", "eof" (Err(UnexpectedEof)), "panic"
    val,         \* the value a get returned or a put was handed (16-bit limbs, high first)
    pre,         \* the object as it was when the last call started
    written,     \* number of bytes stored by the puts that returned
    onlyPuts,    \* TRUE while nothing but put_<T> was called since construction
    \* ---- one Xtea object and its calls (src/lib.rs) ----
    key,         \* Xtea.key : four u32
    rounds,      \* Xtea.rounds
    plain,       \* the byte vector handed to the first call
    input,       \* the argument of the last call
    output,      \* the Vec<u8> the last call returned (or held when it stopped)
    status,      \* "none", "ok" (Ok(..)), "eof" (Err(UnexpectedEof)), "panic"
    iters,       \* loop iterations the last call completed
    calls        \* the calls made so far, oldest first: "encipher" / "decipher"

cursorVars == <<buffer, read_pos, write_pos, op, res, val, pre, written, onlyPuts>>
cipherVars == <<key, rounds, plain, input, output, status, iters, calls>>
vars == <<buffer, read_pos, write_pos, op, res, val, pre, written, onlyPuts,
          key, rounds, plain, input, output, status, iters, calls>>

(***************************************************************************)
(* Bounds of the model.                                                    *)
(***************************************************************************)
\* buffers are never grown beyond this many bytes
MaxLen == 8
\* largest SIZE of Bytes::sized::<SIZE>() and longest contents of Bytes::new
MaxSized == 4
\* largest amount handed to advance_read_pos / advance_write_pos
MaxAdvance == 2
\* with_rounds(r) is called with r in 0..MaxRounds (and the default is kept too)
MaxRounds == 2
\* plaintexts hold up to MaxBlocks whole blocks ...
MaxBlocks == 2
\* ... followed by up to MaxTail trailing bytes
MaxTail == 3
\* encipher / decipher calls chained on one plaintext
MaxCalls == 2

Min(a, b) == IF a <= b THEN a ELSE b

(***************************************************************************)
(* u32 arithmetic on <<hi, lo>>.                                           *)
(***************************************************************************)
W16 == 2^16

RECURSIVE Xor16(_, _)
\* bitwise exclusive or of two numbers below 2^16
Xor16(a, b) ==
    IF a = 0 THEN b
    ELSE IF b = 0 THEN a
    ELSE ((a + b) % 2) + 2 * Xor16(a \div 2, b \div 2)

\* a ^ b
Xor(a, b) == <<Xor16(a[1], b[1]), Xor16(a[2], b[2])>>

\* a.wrapping_add(b)
wrapping_add(a, b) ==
    LET lo == a[2] + b[2]
        hi == a[1] + b[1] + (lo \div W16)
    IN  <<hi % W16, lo % W16>>

\* a.wrapping_sub(b)
wrapping_sub(a, b) ==
    LET lo == a[2] - b[2]
        borrow == IF lo < 0 THEN 1 ELSE 0
        hi == a[1] - b[1] - borrow
    IN  <<(hi + 2 * W16) % W16, (lo + W16) % W16>>

\* a.wrapping_mul(n) for a small n
wrapping_mul(a, n) ==
    LET lo == a[2] * n
        hi == a[1] * n + (lo \div W16)
    IN  <<hi % W16, lo % W16>>

\* v << 4
Shl4(v) == <<(v[1] * 16 + (v[2] \div 4096)) % W16, (v[2] * 16) % W16>>

\* v >> 5
Shr5(v) == <<v[1] \div 32, (v[1] % 32) * 2048 + (v[2] \div 32)>>

\* ((v << 4) ^ (v >> 5)).wrapping_add(v)
Mix(v) == wrapping_add(Xor(Shl4(v), Shr5(v)), v)

\* self.key[(sum & 3) as usize]
KeyLow(k, sum) == k[(sum[2] % 4) + 1]

\* self.key[((sum >> 11) & 3) as usize]
KeyHigh(k, sum) == k[((sum[2] \div 2048) % 4) + 1]

DEFAULT_ROUNDS == 32

\* 0x9E3779B9
DELTA == <<40503, 31161>>

(***************************************************************************)
(* Big-endian conversions.                                                 *)
(***************************************************************************)
\* <T>::from_be_bytes(slice): the value as 16-bit limbs, high first (a u8 is
\* one limb below 256)
from_be_bytes(slice) ==
    IF Len(slice) = 1 THEN <<slice[1]>>
    ELSE [i \in 1..(Len(slice) \div 2) |-> slice[2 * i - 1] * 256 + slice[2 * i]]

\* <T>::to_be_bytes(value) for a value of `size` bytes
to_be_bytes(value, size) ==
    IF size = 1 THEN <<value[1] % 256>>
    ELSE [i \in 1..size |->
            IF i % 2 = 1 THEN value[(i + 1) \div 2] \div 256
                         ELSE value[i \div 2] % 256]

(***************************************************************************)
(* Bytes (src/bytes.rs) as operations on a record                          *)
(* [buffer, read_pos, write_pos].                                          *)
(***************************************************************************)
\* Bytes::new(contents)
new(contents) == [buffer |-> contents, read_pos |-> 0, write_pos |-> 0]

\* Bytes::with_capacity(capacity): an empty Vec, whatever its capacity
with_capacity(capacity) == [buffer |-> <<>>, read_pos |-> 0, write_pos |-> 0]

\* Bytes::sized::<SIZE>()
sized(SIZE) == [buffer |-> [i \in 1..SIZE |-> 0], read_pos |-> 0, write_pos |-> 0]

len(b) == Len(b.buffer)

\* mutant of readable: measured from the write position
readable_from_write_pos(b) == Len(b.buffer) - b.write_pos

readable(b) == Len(b.buffer) - b.read_pos

writable(b) == Len(b.buffer) - b.write_pos

advance_read_pos(b, amount) ==
    [b EXCEPT !.read_pos = b.read_pos + Min(amount, readable(b))]

\* mutant of advance_write_pos: the amount is not clamped to writable()
advance_write_pos_unclamped(b, amount) ==
    [b EXCEPT !.write_pos = b.write_pos + amount]

advance_write_pos(b, amount) ==
    [b EXCEPT !.write_pos = b.write_pos + Min(amount, writable(b))]

\* mutant of resize: a fresh zeroed vector replaces the old contents
resize_cleared(buf, new_len) == [i \in 1..new_len |-> 0]

\* Vec::resize(new_len, 0u8): truncate, or extend with zeroes
resize(buf, new_len) ==
    [i \in 1..new_len |-> IF i <= Len(buf) THEN buf[i] ELSE 0]

\* mutant of impl_get_bytes: the bounds test is >= instead of >
impl_get_bytes_strict(b, SIZE) ==
    LET limit == Len(b.buffer)
        pos == b.read_pos
    IN  IF pos + SIZE >= limit
        THEN [b |-> b, res |-> "eof", val |-> <<>>]
        ELSE [b |-> advance_read_pos(b, SIZE),
              res |-> "ok",
              val |-> from_be_bytes(SubSeq(b.buffer, pos + 1, pos + SIZE))]

\* impl_get_bytes!(buf, T, T::from_be_bytes) with SIZE = size_of::<T>()
impl_get_bytes(b, SIZE) ==
    LET limit == Len(b.buffer)
        pos == b.read_pos
    IN  IF pos + SIZE > limit
        THEN [b |-> b, res |-> "eof", val |-> <<>>]
        ELSE [b |-> advance_read_pos(b, SIZE),
              res |-> "ok",
              val |-> from_be_bytes(SubSeq(b.buffer, pos + 1, pos + SIZE))]

\* the buffer after the growth step of impl_put_bytes!
put_resize(b, slice_len) ==
    LET pos == b.write_pos
        buf_len == Len(b.buffer)
    IN  IF pos + slice_len >= buf_len
        THEN resize(b.buffer, buf_len * 2)
        ELSE b.buffer

\* impl_put_bytes!(this, value): the slice index buffer[pos..pos + slice_len]
\* panics when it ends beyond the (resized) buffer
impl_put_bytes(b, value) ==
    LET pos == b.write_pos
        slice_len == Len(value)
        grown == put_resize(b, slice_len)
    IN  IF pos + slice_len > Len(grown)
        THEN [b |-> [b EXCEPT !.buffer = grown], res |-> "panic"]
        ELSE [b |-> advance_write_pos(
                        [b EXCEPT !.buffer =
                            [i \in 1..Len(grown) |->
                                IF i > pos /\ i <= pos + slice_len
                                THEN value[i - pos] ELSE grown[i]]],
                        slice_len),
              res |-> "ok"]

(***************************************************************************)
(* The cursor as a state machine: one Bytes object, built by one of its    *)
(* three constructors, on which get_<T>, put_<T>, advance_read_pos and     *)
(* advance_write_pos are called in any order.  A panic ends the run.       *)
(***************************************************************************)
\* size_of::<T>() of the accessors: u8/i8, u16/i16, u32/i32, u64/i64
Sizes == {1, 2, 4, 8}

\* bytes of the vectors handed to Bytes::new
InitBytes == {165}

\* first byte of the values handed to put_<T>
PutTags == {16}

\* a value of `size` bytes whose big-endian bytes are t, t + 1, ...
PutValue(size, t) ==
    IF size = 1 THEN <<t>>
    ELSE [i \in 1..(size \div 2) |-> (t + 2 * i - 2) * 256 + (t + 2 * i - 1)]

Self == [buffer |-> buffer, read_pos |-> read_pos, write_pos |-> write_pos]

ZeroKey == <<<<0, 0>>, <<0, 0>>, <<0, 0>>, <<0, 0>>>>

\* no Xtea call is made in the cursor's state machine
CipherIdle ==
    /\ key = ZeroKey
    /\ rounds = DEFAULT_ROUNDS
    /\ plain = <<>>
    /\ input = <<>>
    /\ output = <<>>
    /\ status = "none"
    /\ iters = 0
    /\ calls = <<>>

Constructed(b, name) ==
    /\ buffer = b.buffer
    /\ read_pos = b.read_pos
    /\ write_pos = b.write_pos
    /\ op = [name |-> name, size |-> 0]
    /\ res = "new"
    /\ val = <<>>
    /\ pre = b
    /\ written = 0
    /\ onlyPuts = TRUE

Init ==
    /\ \/ \E n \in 0..MaxSized : \E c \in [1..n -> InitBytes] : Constructed(new(c), "new")
       \/ \E n \in 0..MaxSized : Constructed(with_capacity(n), "with_capacity")
       \/ \E n \in 0..MaxSized : Constructed(sized(n), "sized")
    /\ CipherIdle

\* get_u8 / get_i8 / get_u16 / ... / get_u64
Get(SIZE) ==
    /\ res # "panic"
    /\ LET r == impl_get_bytes(Self, SIZE)
       IN  /\ buffer' = r.b.buffer
           /\ read_pos' = r.b.read_pos
           /\ write_pos' = r.b.write_pos
           /\ res' = r.res
           /\ val' = r.val
    /\ op' = [name |-> "get", size |-> SIZE]
    /\ pre' = Self
    /\ onlyPuts' = FALSE
    /\ UNCHANGED written
    /\ UNCHANGED cipherVars

\* put_u8 / put_i8 / put_i16 / ... / put_u64
Put(SIZE, value) ==
    /\ res # "panic"
    /\ Len(put_resize(Self, SIZE)) <= MaxLen
    /\ LET r == impl_put_bytes(Self, to_be_bytes(value, SIZE))
       IN  /\ buffer' = r.b.buffer
           /\ read_pos' = r.b.read_pos
           /\ write_pos' = r.b.write_pos
           /\ res' = r.res
           /\ written' = IF r.res = "ok" THEN written + SIZE ELSE written
    /\ op' = [name |-> "put", size |-> SIZE]
    /\ pre' = Self
    /\ val' = value
    /\ UNCHANGED onlyPuts
    /\ UNCHANGED cipherVars

AdvanceReadPos(amount) ==
    /\ res # "panic"
    /\ LET b == advance_read_pos(Self, amount)
       IN  /\ buffer' = b.buffer
           /\ read_pos' = b.read_pos
           /\ write_pos' = b.write_pos
    /\ op' = [name |-> "advance_read_pos", size |-> amount]
    /\ res' = "ok"
    /\ pre' = Self
    /\ val' = <<>>
    /\ onlyPuts' = FALSE
    /\ UNCHANGED written
    /\ UNCHANGED cipherVars

AdvanceWritePos(amount) ==
    /\ res # "panic"
    /\ LET b == advance_write_pos(Self, amount)
       IN  /\ buffer' = b.buffer
           /\ read_pos' = b.read_pos
           /\ write_pos' = b.write_pos
    /\ op' = [name |-> "advance_write_pos", size |-> amount]
    /\ res' = "ok"
    /\ pre' = Self
    /\ val' = <<>>
    /\ onlyPuts' = FALSE
    /\ UNCHANGED written
    /\ UNCHANGED cipherVars

Next ==
    \/ \E s \in Sizes : Get(s)
    \/ \E s \in Sizes : \E t \in PutTags : Put(s, PutValue(s, t))
    \/ \E n \in 0..MaxAdvance : AdvanceReadPos(n)
    \/ \E n \in 0..MaxAdvance : AdvanceWritePos(n)

Spec == Init /\ [][Next]_vars

(***************************************************************************)
(* Xtea (src/lib.rs).  A block is a pair <<v0, v1>> of u32.                *)
(***************************************************************************)
\* one turn of the loop of encipher_block: <<v0, v1, sum>> after it.  The
\* closing parenthesis of v0.wrapping_add(..) comes before the ^, so the
\* exclusive or applies to the sum v0 + mix(v1)
encipher_round(k, v0, v1, sum) ==
    LET v0n == Xor(wrapping_add(v0, Mix(v1)),
                   wrapping_add(sum, KeyLow(k, sum)))
        sumn == wrapping_add(sum, DELTA)
        v1n == wrapping_add(v1, Xor(Mix(v0n),
                                    wrapping_add(sumn, KeyHigh(k, sumn))))
    IN  <<v0n, v1n, sumn>>

\* one turn of the loop of decipher_block
decipher_round(k, v0, v1, sum) ==
    LET v1n == wrapping_sub(v1, Xor(Mix(v0),
                                    wrapping_add(sum, KeyHigh(k, sum))))
        sumn == wrapping_sub(sum, DELTA)
        v0n == wrapping_sub(v0, Xor(Mix(v1n),
                                    wrapping_add(sumn, KeyLow(k, sumn))))
    IN  <<v0n, v1n, sumn>>

RECURSIVE encipher_loop(_, _, _)
\* for _ in 0..self.rounds of encipher_block, n turns left, s = <<v0, v1, sum>>
\* (the test of Len(t) makes TLC compute each turn before the next)
encipher_loop(k, n, s) ==
    IF n = 0 THEN s
    ELSE LET t == encipher_round(k, s[1], s[2], s[3])
         IN  IF Len(t) = 3 THEN encipher_loop(k, n - 1, t) ELSE t

RECURSIVE decipher_loop(_, _, _)
\* for _ in 0..self.rounds of decipher_block
decipher_loop(k, n, s) ==
    IF n = 0 THEN s
    ELSE LET t == decipher_round(k, s[1], s[2], s[3])
         IN  IF Len(t) = 3 THEN decipher_loop(k, n - 1, t) ELSE t

\* Xtea::encipher_block: the output block
encipher_block(k, r, in) ==
    LET s == encipher_loop(k, r, <<in[1], in[2], <<0, 0>>>>)
    IN  <<s[1], s[2]>>

\* Xtea::decipher_block: the output block
decipher_block(k, r, in) ==
    LET s == decipher_loop(k, r, <<in[1], in[2], wrapping_mul(DELTA, r)>>)
    IN  <<s[1], s[2]>>

\* mutant of block_iterations: one turn too many
block_iterations_one_more(input_buffer) == readable(input_buffer) \div 8 + 1

\* let iterations = input_buffer.readable() / 8
block_iterations(input_buffer) == readable(input_buffer) \div 8

RECURSIVE block_loop(_, _, _, _, _, _, _)
\* for _ in 0..iterations of do_block_cipher, i turns done: the two get_u32
\* (each returns the error with ?), the block transform, the two put_u32.
\* The result is the call's outcome, the destination's buffer and the
\* number of turns completed.
block_loop(k, r, decrypt, iterations, i, inb, outb) ==
    IF i = iterations
    THEN [status |-> "ok", output |-> outb.buffer, iters |-> i]
    ELSE
      LET g0 == impl_get_bytes(inb, 4)
          g1 == impl_get_bytes(g0.b, 4)
          input_slice == <<g0.val, g1.val>>
          output_slice == IF decrypt THEN decipher_block(k, r, input_slice)
                                     ELSE encipher_block(k, r, input_slice)
          p0 == impl_put_bytes(outb, to_be_bytes(output_slice[1], 4))
          p1 == impl_put_bytes(p0.b, to_be_bytes(output_slice[2], 4))
      IN  IF g0.res # "ok" \/ g1.res # "ok"
          THEN [status |-> "eof", output |-> outb.buffer, iters |-> i]
          ELSE IF p0.res # "ok"
          THEN [status |-> "panic", output |-> p0.b.buffer, iters |-> i]
          ELSE IF p1.res # "ok"
          THEN [status |-> "panic", output |-> p1.b.buffer, iters |-> i]
          ELSE block_loop(k, r, decrypt, iterations, i + 1, g1.b, p1.b)

\* Xtea::do_block_cipher
do_block_cipher(k, r, in, decrypt) ==
    LET input_buffer == new(in)
        output_buffer == new([i \in 1..Len(in) |-> 0])
        iterations == block_iterations(input_buffer)
    IN  block_loop(k, r, decrypt, iterations, 0, input_buffer, output_buffer)

\* Xtea::encipher: do_block_cipher on the input, not decrypting (the extra
\* `output` argument of the call names nothing and is left out)
encipher(k, r, in) == do_block_cipher(k, r, in, FALSE)

\* Xtea::decipher
decipher(k, r, in) == do_block_cipher(k, r, in, TRUE)

(***************************************************************************)
(* The cipher as a state machine: Xtea::using_key(k), with_rounds(r)       *)
(* before the first call, then encipher / decipher calls, each on the      *)
(* vector the call before it returned (the first on the plaintext).        *)
(***************************************************************************)
\* [0x00010203, 0x04050607, 0x08090A0B, 0x0C0D0E0F] and [1, 0, 0xFFFFFFFF, 0x80000000]
Keys ==
    { <<<<1, 515>>, <<1029, 1543>>, <<2057, 2571>>, <<3085, 3599>>>>,
      <<<<0, 1>>, <<0, 0>>, <<65535, 65535>>, <<32768, 0>>>> }

\* the bytes of [0x01234567, 0x89ABCDEF] and of [0, 1]
SampleBlocks ==
    { <<1, 35, 69, 103, 137, 171, 205, 239>>,
      <<0, 0, 0, 0, 0, 0, 0, 1>> }

RECURSIVE Concat(_)
\* the concatenation of a sequence of byte vectors
Concat(ss) == IF ss = <<>> THEN <<>> ELSE ss[1] \o Concat(Tail(ss))

\* whole sample blocks followed by a partial block of bytes 0x7F
Plaintexts ==
    { Concat(bs) \o [i \in 1..t |-> 127] :
        bs \in UNION {[1..n -> SampleBlocks] : n \in 0..MaxBlocks},
        t \in 0..MaxTail }

CursorIdle == Constructed(new(<<>>), "new")

\* Xtea::using_key(key)
CipherInit ==
    /\ CursorIdle
    /\ key \in Keys
    /\ rounds = DEFAULT_ROUNDS
    /\ plain \in Plaintexts
    /\ input = <<>>
    /\ output = <<>>
    /\ status = "none"
    /\ iters = 0
    /\ calls = <<>>

\* Xtea::with_rounds(rounds)
WithRounds(r) ==
    /\ calls = <<>>
    /\ rounds' = r
    /\ UNCHANGED <<key, plain, input, output, status, iters, calls>>
    /\ UNCHANGED cursorVars

\* the argument of the next call
NextInput == IF calls = <<>> THEN plain ELSE output

Call(name, r) ==
    /\ input' = NextInput
    /\ output' = r.output
    /\ status' = r.status
    /\ iters' = r.iters
    /\ calls' = Append(calls, name)
    /\ UNCHANGED <<key, rounds, plain>>
    /\ UNCHANGED cursorVars

Encipher ==
    /\ status \in {"none", "ok"}
    /\ Len(calls) < MaxCalls
    /\ Call("encipher", encipher(key, rounds, NextInput))

Decipher ==
    /\ status \in {"none", "ok"}
    /\ Len(calls) < MaxCalls
    /\ Call("decipher", decipher(key, rounds, NextInput))

CipherNext ==
    \/ \E r \in 0..MaxRounds : WithRounds(r)
    \/ Encipher
    \/ Decipher

CipherSpec == CipherInit /\ [][CipherNext]_vars

(***************************************************************************)
(* Claims about the cursor, checked under Spec.                            *)
(***************************************************************************)

\* C4: a put_<T> never fails for lack of room: whatever constructor built the
\* cursor, the put returns, the size_of::<T>() big-endian bytes of the value
\* lie at the old write_pos and write_pos has advanced by size_of::<T>().
C4_PutNeverFails ==
    op.name = "put" =>
        /\ res = "ok"
        /\ write_pos = pre.write_pos + op.size
        /\ write_pos <= Len(buffer)
        /\ SubSeq(buffer, pre.write_pos + 1, write_pos) = to_be_bytes(val, op.size)

\* C5: a get_<T> with fewer than size_of::<T>() bytes between read_pos and the
\* end of the buffer returns UnexpectedEof and changes nothing; otherwise it
\* succeeds and read_pos advances by exactly size_of::<T>().
C5_UnderrunSignaling ==
    op.name = "get" =>
        IF readable(pre) < op.size
        THEN res = "eof" /\ Self = pre
        ELSE res = "ok" /\ read_pos = pre.read_pos + op.size

\* C5 witness: a get that found some bytes, but fewer than it needs.
C5_Witness ==
    /\ op.name = "get"
    /\ res = "eof"
    /\ readable(pre) > 0
    /\ readable(pre) < op.size

\* C7 as stated: after puts only, readable() is the number of bytes written.
C7_ReadableIsWritten ==
    (onlyPuts /\ op.name = "put" /\ res = "ok") => readable(Self) = written

\* C7 amended: after puts only, readable() is the whole length of the buffer,
\* unwritten bytes included, and is at least the number of bytes written,
\* which is write_pos.
C7_ReadableIsLen ==
    onlyPuts =>
        /\ readable(Self) = Len(buffer)
        /\ write_pos = written
        /\ written <= readable(Self)

\* C7 witness: several puts later, more is readable than was written.
C7_Witness ==
    /\ onlyPuts
    /\ op.name = "put"
    /\ res = "ok"
    /\ written > op.size
    /\ readable(Self) > written

\* C8: both cursors stay within the buffer, and no call moves a cursor back
\* or shortens the buffer.
C8_CursorInvariant ==
    /\ 0 <= read_pos /\ read_pos <= Len(buffer)
    /\ 0 <= write_pos /\ write_pos <= Len(buffer)
    /\ pre.read_pos <= read_pos
    /\ pre.write_pos <= write_pos
    /\ Len(pre.buffer) <= Len(buffer)

\* C8 witness: an advance by more than what was left stopped at the end.
C8_Witness ==
    /\ op.name \in {"advance_read_pos", "advance_write_pos"}
    /\ Len(buffer) > 0
    /\ \/ op.name = "advance_read_pos" /\ op.size > readable(pre) /\ read_pos = Len(buffer)
       \/ op.name = "advance_write_pos" /\ op.size > writable(pre) /\ write_pos = Len(buffer)

\* C10: a put leaves every byte below the write_pos it started from as it
\* was, also when it grows the buffer.
C10_EarlierBytesKept ==
    op.name = "put" =>
        \A i \in 1..pre.write_pos : i <= Len(buffer) /\ buffer[i] = pre.buffer[i]

\* C10 witness: a wider put, after an earlier one, that grew the buffer.
C10_Witness ==
    /\ onlyPuts
    /\ op.name = "put"
    /\ res = "ok"
    /\ op.size > 1
    /\ written > op.size
    /\ Len(buffer) > Len(pre.buffer)
    /\ \E i \in 1..pre.write_pos : buffer[i] # 0

(***************************************************************************)
(* Claims about the cipher, checked under CipherSpec.                      *)
(***************************************************************************)
\* the j-th (from 0) 8-byte block of a byte vector, as two u32
BlockAt(bytes, j) ==
    <<from_be_bytes(SubSeq(bytes, 8 * j + 1, 8 * j + 4)),
      from_be_bytes(SubSeq(bytes, 8 * j + 5, 8 * j + 8))>>

LastCall == calls[Len(calls)]

\* C1: with rounds >= 1, deciphering what encipher returned for a plaintext
\* of whole blocks gives the plaintext back, byte for byte.
C1_RoundTrip ==
    (calls = <<"encipher", "decipher">> /\ rounds >= 1 /\ Len(plain) % 8 = 0) =>
        status = "ok" /\ output = plain

\* C2: the vector encipher or decipher returns for n bytes of input holds
\* exactly 8 * floor(n / 8) bytes.
C2_OutputLength ==
    status = "ok" => Len(output) = 8 * (Len(input) \div 8)

\* one round of the reference function of the specification
RefRound(k, v0, v1, sum) ==
    LET v0n == wrapping_add(v0, Xor(Mix(v1), wrapping_add(sum, KeyLow(k, sum))))
        sumn == wrapping_add(sum, DELTA)
        v1n == wrapping_add(v1, Xor(Mix(v0n),
                                    wrapping_add(sumn, KeyHigh(k, sumn))))
    IN  <<v0n, v1n, sumn>>

RECURSIVE RefLoop(_, _, _)
RefLoop(k, n, s) ==
    IF n = 0 THEN s
    ELSE LET t == RefRound(k, s[1], s[2], s[3])
         IN  IF Len(t) = 3 THEN RefLoop(k, n - 1, t) ELSE t

\* the reference round function applied `r` times from sum = 0
RefEncipherBlock(k, r, in) ==
    LET s == RefLoop(k, r, <<in[1], in[2], <<0, 0>>>>)
    IN  <<s[1], s[2]>>

\* C3: every block encipher wrote is the reference round function's result
\* for the block it read.
C3_MatchesReference ==
    (calls # <<>> /\ LastCall = "encipher") =>
        \A j \in 0..(iters - 1) :
            BlockAt(output, j) = RefEncipherBlock(key, rounds, BlockAt(input, j))

\* C6: enciphering two blocks at once returns the vector encipher returns for
\* the first followed by the vector it returns for the second.
C6_BlockIndependence ==
    (calls = <<"encipher">> /\ Len(input) = 16) =>
        output = encipher(key, rounds, SubSeq(input, 1, 8)).output
                 \o encipher(key, rounds, SubSeq(input, 9, 16)).output

\* C9: whatever the length of the input, a call makes floor(len / 8) turns of
\* its loop and returns Ok: no get_u32 runs out of input, no put_u32 panics.
C9_NoUnderrun ==
    calls # <<>> => status = "ok" /\ iters = Len(input) \div 8

\* C9 witness: a call on an input with whole blocks and a partial one.
C9_Witness ==
    /\ calls # <<>>
    /\ status = "ok"
    /\ Len(input) % 8 # 0
    /\ iters >= 1

====
